---- MODULE Spec2Model ----
(***************************************************************************)
(* The notes backend (src/notes_backend/src/api): a FastAPI service over   *)
(* one SQLAlchemy table.  Each request runs in its own session (get_db);   *)
(* the table is the only state shared by concurrently running requests.    *)
(* A handler that issues several statements is modelled as one step per    *)
(* statement, so that other requests can commit between them.              *)
(***************************************************************************)
EXTENDS Integers, Sequences, FiniteSets, TLC

(* ------------------------------ bounds --------------------------------- *)
NumWorkers == 2
MaxId == 2
MaxClock == 1
ListNotes == 11

(* ------------------------- program constants --------------------------- *)
TitleMinLen == 1
TitleMaxLen == 255
ContentMinLen == 1
PageMin == 1
PageSizeMin == 1
PageSizeMax == 100
PageSizeDefault == 10

Workers == 1..NumWorkers

VARIABLES store, clock, issued, lastDeleted, listed, pc, req, note, dirty, obs, out

vars == <<store, clock, issued, lastDeleted, listed, pc, req, note, dirty, obs, out>>

(* ------------------------------ values --------------------------------- *)
\* Optional[T]: None is the empty set, a present value v is {v}.
None == {}

Some(v) == {v}

The(o) == CHOOSE v \in o : TRUE

\* A str is a sequence of one-character strings.
Rep(c, n) == [i \in 1..n |-> c]

Max(S) == CHOOSE m \in S : \A x \in S : x <= m

Min2(a, b) == IF a <= b THEN a ELSE b

IsSpace(c) == c = " "

RECURSIVE lstrip(_)
lstrip(s) == IF s # <<>> /\ IsSpace(Head(s)) THEN lstrip(Tail(s)) ELSE s

RECURSIVE rstrip(_)
rstrip(s) == IF s # <<>> /\ IsSpace(s[Len(s)]) THEN rstrip(SubSeq(s, 1, Len(s) - 1)) ELSE s

\* str.strip(): the "trimmed" value the specification's validation rules speak of.
strip(s) == rstrip(lstrip(s))

lower_char(c) == IF c = "A" THEN "a" ELSE IF c = "B" THEN "b" ELSE c

lower(s) == [i \in 1..Len(s) |-> lower_char(s[i])]

\* s LIKE '%sub%' for a pattern without wildcard characters of its own.
like_contains(s, sub) ==
    \E i \in 0..(Len(s) - Len(sub)) : \A j \in 1..Len(sub) : s[i + j] = sub[j]

\* Column.ilike(f"%{q}%"): lower(column) LIKE lower(pattern).
ilike(s, q) == like_contains(lower(s), lower(q))

(* --------------------------- pydantic schemas -------------------------- *)
\* A title field that forgets max_length.
title_field_without_max(s) == Len(s) >= TitleMinLen

\* Field(..., min_length=1, max_length=255) / Field(..., min_length=1): the
\* constraints count the characters of the value as sent; nothing is stripped.
title_field_ok(s) == Len(s) >= TitleMinLen /\ Len(s) <= TitleMaxLen

content_field_ok(s) == Len(s) >= ContentMinLen

\* NoteCreate(NoteBase): both fields required.
NoteCreate(title, content) ==
    /\ title # None
    /\ content # None
    /\ title_field_ok(The(title))
    /\ content_field_ok(The(content))

\* NoteUpdate: both fields Optional, each constrained when present.
NoteUpdate(title, content) ==
    /\ title = None \/ title_field_ok(The(title))
    /\ content = None \/ content_field_ok(The(content))

\* Query(1, ge=1) and Query(10, ge=1, le=100).
list_query_ok(page, page_size) ==
    /\ page >= PageMin
    /\ page_size >= PageSizeMin
    /\ page_size <= PageSizeMax

(* ------------------------------ the table ------------------------------ *)
\* A row of table "notes".
Note(id, title, content, created_at, updated_at) ==
    [id |-> id, title |-> title, content |-> content,
     created_at |-> created_at, updated_at |-> updated_at]

Ids(rows) == {r.id : r \in rows}

\* Session.get(Note, note_id): the row with that primary key, or None.
db_get(rows, id) == {r \in rows : r.id = id}

\* id = Column(Integer, primary_key=True) on the default sqlite:/// engine is an
\* INTEGER PRIMARY KEY without AUTOINCREMENT: the rowid given to an insert is one
\* more than the largest rowid currently in the table.
next_rowid(rows) == IF rows = {} THEN 1 ELSE Max(Ids(rows)) + 1

\* utcnow(): a reading of the wall clock.
utcnow == clock

\* INSERT INTO notes.
sql_insert(rows, row) == rows \cup {row}

\* An UPDATE that writes both columns from the payload whether or not the
\* payload carries them, an absent field as the empty string.
sql_update_every_column(rows, id, cols, title, content, now) ==
    {IF r.id = id
        THEN [r EXCEPT !.title = IF title # None THEN The(title) ELSE <<>>,
                       !.content = IF content # None THEN The(content) ELSE <<>>,
                       !.updated_at = now]
        ELSE r : r \in rows}

\* UPDATE notes SET <cols>, updated_at = now WHERE id = :id: the unit of work
\* writes the attributes with a net change, from the values the handler set,
\* and the onupdate default of updated_at.
sql_update(rows, id, cols, title, content, now) ==
    {IF r.id = id
        THEN [r EXCEPT !.title = IF "title" \in cols THEN The(title) ELSE @,
                       !.content = IF "content" \in cols THEN The(content) ELSE @,
                       !.updated_at = now]
        ELSE r : r \in rows}

\* A delete that is never flushed.
sql_delete_not_flushed(rows, id) == rows

\* DELETE FROM notes WHERE id = :id.
sql_delete(rows, id) == {r \in rows : r.id # id}

\* where(or_(Note.title.ilike(like), Note.content.ilike(like))) when q is truthy.
where_q(rows, q) ==
    IF q = None \/ The(q) = <<>>
    THEN rows
    ELSE {r \in rows : ilike(r.title, The(q)) \/ ilike(r.content, The(q))}

\* ORDER BY notes.created_at DESC: every sequence of the rows in which created_at
\* never increases.  The statement names no second key, so the order of rows with
\* equal created_at is whatever the engine produces for that execution.
RECURSIVE order_by_created_at_desc(_)
order_by_created_at_desc(rows) ==
    IF rows = {}
    THEN {<<>>}
    ELSE LET top == Max({r.created_at : r \in rows})
         IN  UNION {{<<r>> \o rest : rest \in order_by_created_at_desc(rows \ {r})} :
                    r \in {x \in rows : x.created_at = top}}

\* .offset(offset).limit(page_size)
offset_limit(seq, offset, limit) ==
    SubSeq(seq, offset + 1, Min2(offset + limit, Len(seq)))

(* --------------------------- requests, replies ------------------------- *)
Request(op, id, title, content, page, page_size, q) ==
    [op |-> op, id |-> id, title |-> title, content |-> content,
     page |-> page, page_size |-> page_size, q |-> q]

NoRequest == Request("none", 0, None, None, 0, 0, None)

\* What a request has done to the store so far: whether it has executed any
\* statement, whether it was issued right after a delete of its id, and what its
\* db.commit() found and left under its id.
Observed(touched, afterDelete, commit) ==
    [touched |-> touched, afterDelete |-> afterDelete, commit |-> commit]

\* The timestamps of the row under an id (None when there is no such row).
Stamps(found) == {[created_at |-> r.created_at, updated_at |-> r.updated_at] : r \in found}

\* A commit: the timestamps under the id before and after it, whether it
\* changed the table, the clock when it ran, whether it executed a statement.
Commit(pre, post, at, stmt) ==
    [pre |-> Stamps(pre), post |-> Stamps(post), changed |-> pre # post, at |-> at, stmt |-> stmt]

Untouched == Observed(FALSE, FALSE, <<>>)

\* The response a step sends (NoResponse when it sends none): the request it
\* answers, its status and body, and what the request did to the store.
Response(r, o, status, body) == [req |-> r, obs |-> o, status |-> status, body |-> body]

NoResponse == Response(NoRequest, Untouched, "none", <<>>)

\* The three list queries whose replies are kept for comparison.
LogKey(page, page_size) ==
    IF page = 1 /\ page_size = PageSizeDefault THEN "p1"
    ELSE IF page = 2 /\ page_size = PageSizeDefault THEN "p2"
    ELSE IF page = 1 /\ page_size = 2 * PageSizeDefault THEN "p12"
    ELSE "none"

EmptyLog == [p1 |-> None, p2 |-> None, p12 |-> None]

(* -------------------------------- Init --------------------------------- *)
\* No request is being handled.
InitWorkers ==
    /\ pc = [w \in Workers |-> "idle"]
    /\ req = [w \in Workers |-> NoRequest]
    /\ note = [w \in Workers |-> None]
    /\ dirty = [w \in Workers |-> {}]
    /\ obs = [w \in Workers |-> Untouched]
    /\ out = NoResponse

\* Base.metadata.create_all on a fresh database: an empty table.
Init ==
    /\ store = {}
    /\ clock = 0
    /\ issued = {}
    /\ lastDeleted = 0
    /\ listed = EmptyLog
    /\ InitWorkers

(* ------------------------------ handlers ------------------------------- *)
\* A request is taken by the first worker that is handling none.
Free(w) == pc[w] = "idle" /\ \A v \in Workers : v < w => pc[v] # "idle"

\* The handler returns, or raises HTTPException: the response is sent and the
\* request's session is closed (get_db).
Reply(w, r, o, status, body) ==
    /\ out' = Response(r, o, status, body)
    /\ pc' = [pc EXCEPT ![w] = "idle"]
    /\ req' = [req EXCEPT ![w] = NoRequest]
    /\ note' = [note EXCEPT ![w] = None]
    /\ dirty' = [dirty EXCEPT ![w] = {}]
    /\ obs' = [obs EXCEPT ![w] = Untouched]

\* The handler goes on to its next statement.
Goto(w, label, r, n, d, o) ==
    /\ pc' = [pc EXCEPT ![w] = label]
    /\ req' = [req EXCEPT ![w] = r]
    /\ note' = [note EXCEPT ![w] = n]
    /\ dirty' = [dirty EXCEPT ![w] = d]
    /\ obs' = [obs EXCEPT ![w] = o]
    /\ out' = NoResponse

\* note.title = payload.title / note.content = payload.content, each only when
\* the payload carries the field.  The attributes set to a value that differs
\* from the loaded one are the only columns the flush writes; with none, the
\* flush emits no UPDATE at all.
net_changes(loaded, title, content) ==
    {c \in {"title"} : title # None /\ The(title) # loaded.title}
    \cup {c \in {"content"} : content # None /\ The(content) # loaded.content}

\* POST /notes: FastAPI validates the body against NoteCreate before the handler
\* body runs (422), then note = Note(title=..., content=...).
create_note(w, title, content) ==
    /\ Free(w)
    /\ LET r == Request("create", 0, title, content, 0, 0, None)
       IN  IF NoteCreate(title, content)
           THEN Goto(w, "create_commit", r, None, {}, Untouched)
           ELSE Reply(w, r, Untouched, "422", <<>>)
    /\ UNCHANGED <<store, clock, issued, lastDeleted, listed>>

\* db.add(note); db.commit().  The INSERT takes the rowid from the table and
\* evaluates the two column defaults, created_at and updated_at, by two calls
\* of utcnow(), between which the clock may advance.  SQLAlchemyError: rollback
\* and 500.
create_note_commit(w, fail) ==
    /\ pc[w] = "create_commit"
    /\ IF fail
       THEN /\ Reply(w, req[w], Observed(TRUE, FALSE, <<>>), "500", <<>>)
            /\ UNCHANGED <<store, clock, issued, lastDeleted, listed>>
       ELSE /\ next_rowid(store) <= MaxId
            /\ \E second \in {utcnow, utcnow + 1} \cap (0..MaxClock) :
                 LET row == Note(next_rowid(store), The(req[w].title),
                                 The(req[w].content), utcnow, second)
                 IN  /\ store' = sql_insert(store, row)
                     /\ clock' = second
                     /\ issued' = issued \cup {row.id}
                     /\ Goto(w, "create_refresh", req[w], Some(row.id), {},
                             Observed(TRUE, FALSE, <<Commit(None, Some(row), utcnow, TRUE)>>))
            /\ lastDeleted' = 0
            /\ listed' = EmptyLog

\* db.refresh(note), still inside the try: a SELECT by primary key.  A failure,
\* or the row no longer being there (InvalidRequestError, a SQLAlchemyError),
\* is answered 500 after a rollback that has nothing left to undo.
create_note_refresh(w, fail) ==
    /\ pc[w] = "create_refresh"
    /\ LET cur == db_get(store, The(note[w]))
       IN  IF fail \/ cur = None
           THEN Reply(w, req[w], obs[w], "500", <<>>)
           ELSE Reply(w, req[w], obs[w], "201", <<The(cur)>>)
    /\ UNCHANGED <<store, clock, issued, lastDeleted, listed>>

\* GET /notes: Query constraints (422), then one SELECT; SQLAlchemyError: 500.
list_notes(w, page, page_size, q, fail) ==
    /\ Free(w)
    /\ LET r == Request("list", 0, None, None, page, page_size, q)
       IN  IF ~list_query_ok(page, page_size)
           THEN /\ Reply(w, r, Untouched, "422", <<>>)
                /\ UNCHANGED listed
           ELSE IF fail
           THEN /\ Reply(w, r, Observed(TRUE, FALSE, <<>>), "500", <<>>)
                /\ UNCHANGED listed
           ELSE \E ordered \in order_by_created_at_desc(where_q(store, q)) :
                  LET offset == (page - 1) * page_size
                      results == offset_limit(ordered, offset, page_size)
                      key == LogKey(page, page_size)
                  IN  /\ Reply(w, r, Observed(TRUE, FALSE, <<>>), "200", results)
                      /\ listed' = IF q = None /\ key # "none"
                                   THEN [listed EXCEPT ![key] = Some(results)]
                                   ELSE listed
    /\ UNCHANGED <<store, clock, issued, lastDeleted>>

\* GET /notes/{note_id}: db.get, 404 when there is no such row.
get_note(w, id) ==
    /\ Free(w)
    /\ LET r == Request("get", id, None, None, 0, 0, None)
           o == Observed(TRUE, lastDeleted = id, <<>>)
           found == db_get(store, id)
       IN  IF found = None
           THEN Reply(w, r, o, "404", <<>>)
           ELSE Reply(w, r, o, "200", <<The(found)>>)
    /\ UNCHANGED <<store, clock, issued, lastDeleted, listed>>

\* PUT /notes/{note_id}: the body is validated against NoteUpdate (422) before
\* the handler body, which looks the note up (404), then rejects a payload
\* with neither field (400), then sets the supplied attributes.
update_note(w, id, title, content) ==
    /\ Free(w)
    /\ LET r == Request("update", id, title, content, 0, 0, None)
           o == Observed(TRUE, FALSE, <<>>)
           found == db_get(store, id)
       IN  IF ~NoteUpdate(title, content)
           THEN Reply(w, r, Untouched, "422", <<>>)
           ELSE IF found = None
           THEN Reply(w, r, o, "404", <<>>)
           ELSE IF title = None /\ content = None
           THEN Reply(w, r, o, "400", <<>>)
           ELSE Goto(w, "update_commit", r, Some(id),
                     net_changes(The(found), title, content), o)
    /\ UNCHANGED <<store, clock, issued, lastDeleted, listed>>

\* db.add(note); db.commit().  Without a net change nothing is flushed.  An
\* UPDATE that matches no row raises StaleDataError, a SQLAlchemyError like any
\* failure of the store: rollback and 500.
update_note_commit(w, fail) ==
    /\ pc[w] = "update_commit"
    /\ LET id == The(note[w])
           pre == db_get(store, id)
           unchanged == [obs[w] EXCEPT !.commit = <<Commit(pre, pre, utcnow, dirty[w] # {})>>]
       IN  IF fail
           THEN /\ Reply(w, req[w], obs[w], "500", <<>>)
                /\ UNCHANGED <<store, lastDeleted, listed>>
           ELSE IF dirty[w] = {}
           THEN /\ Goto(w, "update_refresh", req[w], note[w], dirty[w], unchanged)
                /\ UNCHANGED <<store, lastDeleted, listed>>
           ELSE IF pre = None
           THEN /\ Reply(w, req[w], unchanged, "500", <<>>)
                /\ UNCHANGED <<store, lastDeleted, listed>>
           ELSE /\ store' = sql_update(store, id, dirty[w], req[w].title, req[w].content, utcnow)
                /\ lastDeleted' = 0
                /\ listed' = EmptyLog
                /\ Goto(w, "update_refresh", req[w], note[w], dirty[w],
                        [obs[w] EXCEPT !.commit =
                           <<Commit(pre, db_get(store', id), utcnow, TRUE)>>])
    /\ UNCHANGED <<clock, issued>>

\* db.refresh(note), inside the same try as the commit.
update_note_refresh(w, fail) ==
    /\ pc[w] = "update_refresh"
    /\ LET cur == db_get(store, The(note[w]))
       IN  IF fail \/ cur = None
           THEN Reply(w, req[w], obs[w], "500", <<>>)
           ELSE Reply(w, req[w], obs[w], "200", <<The(cur)>>)
    /\ UNCHANGED <<store, clock, issued, lastDeleted, listed>>

\* DELETE /notes/{note_id}: db.get, 404 when there is no such row.
delete_note(w, id) ==
    /\ Free(w)
    /\ LET r == Request("delete", id, None, None, 0, 0, None)
           o == Observed(TRUE, lastDeleted = id, <<>>)
           found == db_get(store, id)
       IN  IF found = None
           THEN Reply(w, r, o, "404", <<>>)
           ELSE Goto(w, "delete_commit", r, Some(id), {}, o)
    /\ UNCHANGED <<store, clock, issued, lastDeleted, listed>>

\* db.delete(note); db.commit().  A DELETE that matches no row only warns (the
\* mapper has no version column), so the handler still answers 204.
\* SQLAlchemyError: rollback and 500.
delete_note_commit(w, fail) ==
    /\ pc[w] = "delete_commit"
    /\ LET id == The(note[w])
       IN  IF fail
           THEN /\ Reply(w, req[w], obs[w], "500", <<>>)
                /\ UNCHANGED <<store, lastDeleted, listed>>
           ELSE /\ store' = sql_delete(store, id)
                /\ lastDeleted' = id
                /\ listed' = EmptyLog
                /\ Reply(w, req[w],
                         [obs[w] EXCEPT !.commit =
                            <<Commit(db_get(store, id), db_get(store', id), utcnow, TRUE)>>],
                         "204", <<>>)
    /\ UNCHANGED <<clock, issued>>

\* Time passes.
Tick ==
    /\ clock < MaxClock
    /\ clock' = clock + 1
    /\ out' = NoResponse
    /\ UNCHANGED <<store, issued, lastDeleted, listed, pc, req, note, dirty, obs>>

(* --------------------------- specifications ---------------------------- *)
\* A request arrives at worker w, its inputs drawn from the given sets.
Receive(w, titles, contents, pages, page_sizes, searches) ==
    \/ \E title \in titles, content \in contents : create_note(w, title, content)
    \/ \E page \in pages, page_size \in page_sizes, q \in searches, fail \in BOOLEAN :
         list_notes(w, page, page_size, q, fail)
    \/ \E id \in 1..MaxId : get_note(w, id)
    \/ \E id \in 1..MaxId, title \in titles, content \in contents :
         update_note(w, id, title, content)
    \/ \E id \in 1..MaxId : delete_note(w, id)

\* Worker w executes the next statement of its handler; the store may fail it.
Continue(w) ==
    \/ \E fail \in BOOLEAN : create_note_commit(w, fail)
    \/ \E fail \in BOOLEAN : create_note_refresh(w, fail)
    \/ \E fail \in BOOLEAN : update_note_commit(w, fail)
    \/ \E fail \in BOOLEAN : update_note_refresh(w, fail)
    \/ \E fail \in BOOLEAN : delete_note_commit(w, fail)

\* Payloads around the limits of the schemas: absent, empty, blank, ordinary,
\* of the greatest length allowed and one longer.
Titles ==
    {None, Some(<<>>), Some(<<" ">>), Some(<<"a">>),
     Some(Rep("a", TitleMaxLen)), Some(Rep("a", TitleMaxLen + 1))}

Contents == {None, Some(<<>>), Some(<<" ">>), Some(<<"x">>)}

Searches == {None, Some(<<"A">>)}

Pages == {PageMin - 1, PageMin, PageMin + 1}

PageSizes == {PageSizeMin, PageSizeMax + 1}

\* One request at a time.
Next ==
    \/ Tick
    \/ Receive(1, Titles, Contents, Pages, PageSizes, Searches)
    \/ Continue(1)

Spec == Init /\ [][Next]_vars

\* Requests handled concurrently by the workers, over small payloads.
FewTitles == {Some(<<"a">>)}

FewContents == {None, Some(<<"x">>), Some(<<"y">>)}

NextConcurrent ==
    \/ Tick
    \/ \E w \in Workers : Receive(w, FewTitles, FewContents, {PageMin}, {PageSizeMin}, {None})
    \/ \E w \in Workers : Continue(w)

SpecConcurrent == Init /\ [][NextConcurrent]_vars

\* A table of n notes inserted one after the other, the clock advancing between
\* two inserts except between the inserts of notes tie and tie + 1 (tie = 0:
\* no two notes share created_at).
ListRow(i, tie) ==
    LET at == IF tie >= 1 /\ i = tie + 1 THEN tie ELSE i
    IN  Note(i, <<"a">>, <<"x">>, at, at)

ListStore(n, tie) == {ListRow(i, tie) : i \in 1..n}

InitList ==
    /\ \E n \in {ListNotes, ListNotes + 1}, tie \in 0..ListNotes :
         /\ tie < n
         /\ store = ListStore(n, tie)
         /\ clock = n
         /\ issued = 1..n
    /\ lastDeleted = 0
    /\ listed = EmptyLog
    /\ InitWorkers

\* Pages of the default size, and of twice the default size, of such a table.
NextList ==
    \E page \in {PageMin, PageMin + 1}, page_size \in {PageSizeDefault, 2 * PageSizeDefault},
       fail \in BOOLEAN :
         list_notes(1, page, page_size, None, fail)

SpecList == InitList /\ [][NextList]_vars

(* ------------------------------- claims -------------------------------- *)
WriteOps == {"create", "update", "delete"}

Committed == out.obs.commit # <<>>

TheCommit == out.obs.commit[1]

Elements(seq) == {seq[i] : i \in 1..Len(seq)}

\* The payload of a create or update request passes every validation rule:
\* the schema's, and for an update that at least one field is present.
PayloadValid(r) ==
    IF r.op = "create"
    THEN NoteCreate(r.title, r.content)
    ELSE NoteUpdate(r.title, r.content) /\ ~(r.title = None /\ r.content = None)

\* C1: the id a create assigns differs from the id of every note created
\* before it, deleted or not: no id is ever assigned twice.
C1_IdNeverReused ==
    [][\A w \in Workers :
         (pc[w] = "create_commit" /\ pc'[w] = "create_refresh")
            => The(note'[w]) \notin issued]_vars

\* C2: an update of an existing note that answers 200 leaves updated_at
\* strictly greater than it was before the update, whatever the valid payload,
\* also when the supplied values equal the current ones.  (Stated for updates
\* committed after the clock has moved past the note's updated_at, as it has
\* between two requests.)
C2_UpdatedAtStrictlyIncreases ==
    (out.req.op = "update" /\ out.status = "200" /\ Committed
        /\ TheCommit.pre # None /\ TheCommit.post # None
        /\ TheCommit.at > The(TheCommit.pre).updated_at)
    => The(TheCommit.post).updated_at > The(TheCommit.pre).updated_at

\* C3: an update that commits changes only the supplied fields and updated_at
\* of its note: the set of ids, every other note, the note's created_at, and
\* a title or content the payload does not carry are as before.
C3_UpdateFrame ==
    [][\A w \in Workers :
         (pc[w] = "update_commit" /\ pc'[w] = "update_refresh")
            => /\ Ids(store') = Ids(store)
               /\ \A r \in store : r.id # req[w].id => r \in store'
               /\ \A r \in store, r2 \in store' :
                    (r.id = req[w].id /\ r2.id = req[w].id)
                       => /\ r2.created_at = r.created_at
                          /\ req[w].title = None => r2.title = r.title
                          /\ req[w].content = None => r2.content = r.content]_vars

\* C3's case: a 200 to an update without a title that changed its note while
\* another note was in the table.
C3_Witness ==
    /\ out.req.op = "update"
    /\ out.status = "200"
    /\ out.req.title = None
    /\ Committed
    /\ TheCommit.changed
    /\ Cardinality(store) = 2

\* C4 as stated: every persisted note has a title of trimmed length 1..255 and
\* a content of trimmed length at least 1.
C4_TrimmedLengths ==
    \A r \in store :
        /\ Len(strip(r.title)) >= TitleMinLen
        /\ Len(strip(r.title)) <= TitleMaxLen
        /\ Len(strip(r.content)) >= ContentMinLen

\* C4 amended: every persisted note has a title of length 1..255 and a content
\* of length at least 1, counted untrimmed; a create or update carrying an
\* empty title or content is answered 422 without touching the store.
C4_StoredLengths ==
    /\ \A r \in store :
        /\ Len(r.title) >= TitleMinLen
        /\ Len(r.title) <= TitleMaxLen
        /\ Len(r.content) >= ContentMinLen
    /\ (out.req.op \in {"create", "update"}
           /\ (out.req.title = Some(<<>>) \/ out.req.content = Some(<<>>)))
       => (out.status = "422" /\ ~out.obs.touched)

\* C4's case: a note with a title of the greatest length and a note whose
\* title is blank are both in the table, one of them written by an update.
C4_Witness ==
    \E r1 \in store, r2 \in store :
        /\ Len(r1.title) = TitleMaxLen
        /\ strip(r2.title) = <<>>
        /\ strip(r2.content) = <<>>
        /\ r1.updated_at > r1.created_at

\* C5: a create or update whose payload is invalid is answered with a
\* validation error (400 or 422) before the store is read or written; an
\* update carrying neither field gets it whether or not the note exists.
C5_ValidationBeforeStore ==
    (out.req.op \in {"create", "update"} /\ ~PayloadValid(out.req))
    => (out.status \in {"400", "422"} /\ ~out.obs.touched)

C7_WritesAtomic ==
    out.req.op \in WriteOps
    => /\ out.status = "500" => (~Committed \/ ~TheCommit.changed)
       /\ out.status \in {"200", "201", "204"} => Committed

\* C8: a get or a delete of id i issued right after a delete of i was
\* answered 204 is answered 404.
C8_DeletedIsNotFound ==
    (out.req.op \in {"get", "delete"} /\ out.obs.afterDelete) => out.status = "404"

\* C8's case: a get answered right after the delete of its id.
C8_Witness ==
    /\ out.req.op = "get"
    /\ out.obs.afterDelete
    /\ out.status = "404"

\* C9: a create answered 201 has persisted, and returns, a note whose
\* created_at equals its updated_at.
C9_CreatedEqualsUpdated ==
    (out.req.op = "create" /\ out.status = "201")
    => /\ The(TheCommit.post).created_at = The(TheCommit.post).updated_at
       /\ out.body[1].created_at = out.body[1].updated_at

\* C10: an update or delete whose commit finds no note under its id is
\* answered 404, not 500 and not success.
C10_AbsentIsNotFound ==
    (out.req.op \in {"update", "delete"} /\ Committed /\ TheCommit.pre = None)
    => out.status = "404"

====
